---------------------------- MODULE Spec2Model ----------------------------
(***************************************************************************)
(* A model of lspit, the command-line LSP client of ruistola/lspit.        *)
(*                                                                         *)
(* The state is the LSPClient object of client.go (nextID, the mutex mu,   *)
(* the responses table, the done channel, the two pipes to the gopls       *)
(* subprocess), the position of the main goroutine in main() and in the    *)
(* client method it is executing, and the position of the background       *)
(* goroutine in readLoop().  The language server is an untrusted external  *)
(* process: it emits any frame of a small menu, answers the requests it    *)
(* has read in any order, and may exit at any moment.                      *)
(*                                                                         *)
(* Both byte streams are sequences of tokens.  A token stands for a piece  *)
(* of text that the code handles as a unit: the prefix "Content-Length:",  *)
(* a decimal number, a line end "\r\n", a JSON object, the bytes that      *)
(* close it, a byte of something else.  len() counts tokens.               *)
(*                                                                         *)
(* Spec is the program as main() runs it: one caller.  ConcSpec is the     *)
(* same client object used by further goroutines that call the query       *)
(* methods concurrently, which is what the statements about concurrent     *)
(* callers are about.                                                      *)
(***************************************************************************)
EXTENDS Integers, Sequences, FiniteSets, TLC

(***************************************************************************)
(* Bounds of the model.                                                    *)
(***************************************************************************)
MaxServerFrames == 2   \* frames the server emits in one run
NumWorkers == 2        \* goroutines besides main that call the client (ConcSpec)
IntBits == 3           \* bits of the model's int, which stands for Go's int (PosSpec)

(***************************************************************************)
(* Program constants.                                                      *)
(***************************************************************************)
FirstID == 1           \* nextID: 1 in NewLSPClient
ChanCap == 1           \* make(chan json.RawMessage, 1)

Main == 0
Workers == 1..NumWorkers
Callers == {Main} \cup Workers

NoId == -1             \* a message without "id" (msg.ID == nil)
UnissuedId == 0        \* an id the client never issues (ids start at FirstID)

(***************************************************************************)
(* Tokens and messages.                                                    *)
(***************************************************************************)
NoBody == [id |-> NoId, kind |-> "none", val |-> "none"]
Tok(t) == [t |-> t, n |-> 0, b |-> NoBody]
Num(n) == [t |-> "num", n |-> n, b |-> NoBody]
Obj(b) == [t |-> "obj", n |-> 0, b |-> b]

\* a client-to-server message: a request carries an id, a notification none
Request(id, method) == [id |-> id, kind |-> "request", val |-> method]
Notification(method) == [id |-> NoId, kind |-> "notification", val |-> method]

\* json.Marshal of a message: the object and the bytes that close it
Marshal(b) == <<Obj(b), Tok("end")>>

\* json.Unmarshal succeeds on exactly the text of one JSON object
IsJSON(content) ==
    /\ Len(content) = 2
    /\ content[1].t = "obj"
    /\ content[2].t = "end"

\* fmt.Sprintf("Content-Length: %d\r\n\r\n%s", len(data), data)
Frame(data) == <<Tok("CL"), Num(Len(data)), Tok("NL"), Tok("NL")>> \o data

HeaderLen == Len(Frame(<<>>))

\* the Write calls sendMessage makes for one message: one, of the whole text
WriteChunksSplit(msg) ==
    <<SubSeq(msg, 1, HeaderLen), SubSeq(msg, HeaderLen + 1, Len(msg))>>

WriteChunks(msg) == <<msg>>


(***************************************************************************)
(* Small helpers on sequences and functions.                               *)
(***************************************************************************)
Range(s) == {s[i] : i \in 1..Len(s)}

\* the map without key k: delete(c.responses, k)
WithoutNothing(f, k) == f

Without(f, k) == [x \in DOMAIN f \ {k} |-> f[x]]

\* the map with key k set to v: c.responses[k] = v
WithNothing(f, k, v) == f

With(f, k, v) == [x \in DOMAIN f \cup {k} |-> IF x = k THEN v ELSE f[x]]

(***************************************************************************)
(* The commands of main() and what the query methods do with a result.     *)
(* "type", "def" and "refs" are aliases of the three commands.             *)
(***************************************************************************)
QueryOps == {"hover", "definition", "references"}
Commands == QueryOps \cup {"unknown"}
ArgCases == {"ok", "few", "badpos"}

\* the methods the worker goroutines call; References runs the steps of
\* Definition with another method name
WorkerOps == {"hover", "definition"}

QueryMethod(o) == "textDocument/" \o o

\* the texts a server puts in "result": null, an object, a list that is not
\* empty, the empty list
ResultVals == {"null", "obj", "list", "empty"}

\* a message without "result" taken for one with the result null
ResultOfErrorAsNull(b) == IF b.kind = "result" THEN b.val ELSE "null"

\* msg.Result of a decoded message: the "result" member, empty when absent
ResultOf(b) == IF b.kind = "result" THEN b.val ELSE "nil"

\* Hover: json.Unmarshal(resp, &result) and displayHoverInfo(result.Contents)
HoverOutcome(resp) ==
    CASE resp = "null" -> "nohover"
      [] resp = "obj" -> "shown"
      [] OTHER -> "err"

\* Definition, References: json.Unmarshal(resp, &locations), displayLocations
LocationsOutcome(resp) ==
    CASE resp \in {"null", "empty"} -> "nolocs"
      [] resp = "list" -> "shown"
      [] OTHER -> "err"

OutcomeNullIsError(o, resp) ==
    IF resp \in {"null", "empty"} THEN "err"
    ELSE IF o = "hover" THEN HoverOutcome(resp)
    ELSE LocationsOutcome(resp)

Outcome(o, resp) ==
    IF o = "hover" THEN HoverOutcome(resp) ELSE LocationsOutcome(resp)

(***************************************************************************)
(* State.                                                                  *)
(***************************************************************************)
\* a caller makes at most one channel in Initialize and one in a query method
ChanKeys == Callers \X {"init", "query"}
NoChan == [id |-> NoId, buf |-> <<>>, got |-> <<>>, taken |-> 0]

VARIABLES
    nextID,      \* c.nextID
    mu,          \* c.mu: "free" or the goroutine that holds it
    responses,   \* c.responses: request id -> its channel (a key of chans)
    chans,       \* the channels registerResponse has made, by caller and call site
    doneClosed,  \* close(c.done) has happened
    stdinClosed, \* c.stdin.Close() has happened
    proc,        \* the client process: "running", "exit0", "exit1", "panic"
    pc,          \* per caller: its position in main() and the client method
    op,          \* per caller: the query method it runs
    id,          \* per caller: the local id of the method
    wbuf,        \* per caller: Write calls of the current message still to make
    result,      \* per caller: what its query method returned
    rpc,         \* the position of readLoop
    rlen,        \* readLoop: contentLength
    rmsg,        \* readLoop: msg
    rhdr,        \* history: kinds of header lines of the frame readLoop read last
    srvUp,       \* the server process runs and holds its ends of the pipes
    sent,        \* frames the server has emitted
    stdout,      \* tokens the server has written and readLoop has not read
    stdinBuf,    \* tokens written to the server's input that make no whole frame yet
    received,    \* the ids of the requests the server has read
    sentLog,     \* history, per caller: the messages it has written, in order
    issued,      \* history: the ids getNextID has returned, in order
    closeLog,    \* history: the steps Close has taken, in order
    closeCalls,  \* history: number of times Close has been entered
    ppc,         \* the position of a caller in the handling of a source position
    cli,         \* the line and column arguments as strconv.Atoi returns them
    wire,        \* "position" of the request: line and character
    loc,         \* range.start of a location of the result: line and character
    shown        \* the line and column displayLocations prints

clientVars == <<nextID, mu, responses, chans, doneClosed, stdinClosed, proc>>
callerVars == <<pc, op, id, wbuf, result>>
readerVars == <<rpc, rlen, rmsg, rhdr>>
serverVars == <<srvUp, sent, stdout>>
histVars == <<issued, closeLog, closeCalls>>
wireVars == <<stdinBuf, received, sentLog>>
posVars == <<ppc, cli, wire, loc, shown>>
sessionVars ==
    <<clientVars, callerVars, readerVars, serverVars, wireVars, histVars>>
vars == <<clientVars, callerVars, readerVars, serverVars, wireVars, histVars, posVars>>

\* NewLSPClient has returned: gopls runs, readLoop is started, nothing is sent.
InitAt(mainPc) ==
    /\ nextID = FirstID
    /\ mu = "free"
    /\ responses = <<>>
    /\ chans = [k \in ChanKeys |-> NoChan]
    /\ doneClosed = FALSE
    /\ stdinClosed = FALSE
    /\ proc = "running"
    /\ pc = [c \in Callers |-> IF c = Main THEN mainPc ELSE "w_idle"]
    /\ op = [c \in Callers |-> "none"]
    /\ id = [c \in Callers |-> NoId]
    /\ wbuf = [c \in Callers |-> <<>>]
    /\ result = [c \in Callers |-> "none"]
    /\ rpc = "r_check"
    /\ rlen = 0
    /\ rmsg = NoBody
    /\ rhdr = {}
    /\ srvUp = TRUE
    /\ sent = 0
    /\ stdout = <<>>
    /\ stdinBuf = <<>>
    /\ received = {}
    /\ sentLog = [c \in Callers |-> <<>>]
    /\ issued = <<>>
    /\ closeLog = <<>>
    /\ closeCalls = 0

(***************************************************************************)
(* Source positions.  Go's int is a two's complement integer of fixed      *)
(* width: + and - wrap around.                                             *)
(***************************************************************************)
MinInt == -(2 ^ (IntBits - 1))
MaxInt == 2 ^ (IntBits - 1) - 1
Ints == MinInt..MaxInt

WrapInt(x) == ((x - MinInt) % (2 ^ IntBits)) + MinInt
AddInt(a, b) == WrapInt(a + b)
SubInt(a, b) == WrapInt(a - b)

\* what strconv.Atoi returns for an argument: a number, or an error
AtoiResults ==
    {[ok |-> TRUE, n |-> i] : i \in Ints} \cup {[ok |-> FALSE, n |-> 0]}

\* parsePosition: both arguments are numbers and both are >= 1
ValidPosition(args) ==
    /\ args[1].ok
    /\ args[2].ok
    /\ ~(args[1].n < 1 \/ args[2].n < 1)

\* "line": line - 1, "character": col - 1
WirePositionAsIs(line, col) == <<line, col>>

WirePosition(line, col) == <<SubInt(line, 1), SubInt(col, 1)>>

\* line := loc.Range.Start.Line + 1; col := loc.Range.Start.Character + 1
DisplayPosition(l, ch) == <<AddInt(l, 1), AddInt(ch, 1)>>

ZeroPos == <<0, 0>>
NoArgs == <<[ok |-> TRUE, n |-> 0], [ok |-> TRUE, n |-> 0]>>

\* positions are not looked at: Spec and ConcSpec leave them to PosSpec
PosIdle ==
    /\ ppc = "idle"
    /\ cli = NoArgs
    /\ wire = ZeroPos
    /\ loc = ZeroPos
    /\ shown = ZeroPos

\* main() has deferred client.Close() and is about to call client.Initialize()
Init == InitAt("init_id") /\ PosIdle

\* main() has started the worker goroutines and waits for them
ConcInit == InitAt("harness") /\ PosIdle

Running == proc = "running"


(***************************************************************************)
(* The straight-line order of the steps of Initialize, of the three query  *)
(* methods (which share one skeleton) and of Close.                        *)
(***************************************************************************)
InitializeNextNoWait(p) ==
    CASE p = "init_id" -> "init_reg"
      [] p = "init_reg" -> "init_send"
      [] p = "init_send" -> "init_notif"
      [] p = "init_wait" -> "init_notif"
      [] p = "init_notif" -> "dispatch"

InitializeNext(p) ==
    CASE p = "init_id" -> "init_reg"
      [] p = "init_reg" -> "init_send"
      [] p = "init_send" -> "init_wait"
      [] p = "init_wait" -> "init_notif"
      [] p = "init_notif" -> "dispatch"

QueryNextSendFirst(p) ==
    CASE p = "q_open" -> "q_id"
      [] p = "q_id" -> "q_send"
      [] p = "q_send" -> "q_reg"
      [] p = "q_reg" -> "q_wait"

QueryNext(p) ==
    CASE p = "q_open" -> "q_id"
      [] p = "q_id" -> "q_reg"
      [] p = "q_reg" -> "q_send"
      [] p = "q_send" -> "q_wait"

CloseNextExitLast(p) ==
    CASE p = "close_id" -> "close_shutdown"
      [] p = "close_shutdown" -> "close_done"
      [] p = "close_done" -> "close_stdin"
      [] p = "close_stdin" -> "close_exit"
      [] p = "close_exit" -> "close_wait"

CloseNextNoWait(p) ==
    CASE p = "close_id" -> "close_shutdown"
      [] p = "close_shutdown" -> "close_exit"
      [] p = "close_exit" -> "close_done"
      [] p = "close_done" -> "close_stdin"
      [] p = "close_stdin" -> "closed"

CloseNext(p) ==
    CASE p = "close_id" -> "close_shutdown"
      [] p = "close_shutdown" -> "close_exit"
      [] p = "close_exit" -> "close_done"
      [] p = "close_done" -> "close_stdin"
      [] p = "close_stdin" -> "close_wait"

InitializePcs == {"init_id", "init_reg", "init_send", "init_wait", "init_notif"}
QueryPcs == {"q_open", "q_id", "q_reg", "q_send", "q_wait"}
ClosePcs ==
    {"close_id", "close_shutdown", "close_exit", "close_done", "close_stdin",
     "close_wait"}

Succ(p) ==
    IF p \in InitializePcs THEN InitializeNext(p)
    ELSE IF p \in QueryPcs THEN QueryNext(p)
    ELSE CloseNext(p)

(***************************************************************************)
(* How a client method ends.  In main() every error ends in os.Exit(1),    *)
(* which does not run the deferred client.Close(); when main() returns,    *)
(* the deferred Close runs.  A worker goroutine just has its result.       *)
(***************************************************************************)
ReturnErr(c) ==
    /\ result' = [result EXCEPT ![c] = "err"]
    /\ pc' = [pc EXCEPT ![c] = IF c = Main THEN "exited" ELSE "w_done"]
    /\ proc' = IF c = Main THEN "exit1" ELSE proc
    /\ UNCHANGED <<closeCalls, closeLog>>

ReturnNil(c, r) ==
    /\ result' = [result EXCEPT ![c] = r]
    /\ pc' = [pc EXCEPT ![c] = IF c = Main THEN "close_id" ELSE "w_done"]
    /\ closeCalls' = IF c = Main THEN closeCalls + 1 ELSE closeCalls
    /\ UNCHANGED <<proc, closeLog>>

Goto(c, p) ==
    /\ pc' = [pc EXCEPT ![c] = p]
    /\ UNCHANGED <<proc, result, closeCalls, closeLog>>

(***************************************************************************)
(* getNextID: under c.mu, return c.nextID and increment it.                *)
(***************************************************************************)
NextIDAfterStuck(n) == n

NextIDAfter(n) == n + 1

getNextID(c) ==
    /\ Running
    /\ pc[c] \in {"init_id", "q_id", "close_id"}
    /\ mu = "free"
    /\ id' = [id EXCEPT ![c] = nextID]
    /\ nextID' = NextIDAfter(nextID)
    /\ issued' = Append(issued, nextID)
    /\ Goto(c, Succ(pc[c]))
    /\ UNCHANGED <<mu, responses, chans, doneClosed, stdinClosed, op, wbuf,
                   readerVars, serverVars, wireVars>>
    /\ UNCHANGED posVars

(***************************************************************************)
(* registerResponse: under c.mu, make a channel of capacity 1 and store it *)
(* in c.responses under the id.                                            *)
(***************************************************************************)
\* A channel value: the id it was registered under, what is in its buffer,
\* and as history the id, kind and result of the messages sent on it and the
\* number of receives from it.
NewChan(i) == [id |-> i, buf |-> <<>>, got |-> <<>>, taken |-> 0]

\* the local variable respChan of caller c at position p
RespChan(c, p) == <<c, IF p \in InitializePcs THEN "init" ELSE "query">>

registerResponse(c) ==
    /\ Running
    /\ pc[c] \in {"init_reg", "q_reg"}
    /\ mu = "free"
    /\ chans' = [chans EXCEPT ![RespChan(c, pc[c])] = NewChan(id[c])]
    /\ responses' = With(responses, id[c], RespChan(c, pc[c]))
    /\ Goto(c, Succ(pc[c]))
    /\ UNCHANGED <<nextID, mu, doneClosed, stdinClosed, op, id, wbuf,
                   readerVars, serverVars, wireVars, issued>>
    /\ UNCHANGED posVars

(***************************************************************************)
(* The server's side of its input: it takes whole frames off the stream.   *)
(***************************************************************************)
FirstFrameOK(s) ==
    /\ Len(s) >= HeaderLen
    /\ s[1].t = "CL"
    /\ s[2].t = "num"
    /\ s[3].t = "NL"
    /\ s[4].t = "NL"
    /\ s[2].n >= 0
    /\ Len(s) >= HeaderLen + s[2].n
    /\ IsJSON(SubSeq(s, HeaderLen + 1, HeaderLen + s[2].n))

\* the messages of the whole frames at the start of s, and what follows them
RECURSIVE Deframe(_)
Deframe(s) ==
    IF FirstFrameOK(s)
    THEN LET r == Deframe(SubSeq(s, HeaderLen + s[2].n + 1, Len(s)))
         IN [msgs |-> <<s[HeaderLen + 1].b>> \o r.msgs, rest |-> r.rest]
    ELSE [msgs |-> <<>>, rest |-> s]

RequestIds(msgs) == {m.id : m \in {x \in Range(msgs) : x.kind = "request"}}

\* what is left to write of the message caller c is writing
RECURSIVE Flatten(_)
Flatten(chunks) ==
    IF chunks = <<>> THEN <<>> ELSE Head(chunks) \o Flatten(Tail(chunks))

(***************************************************************************)
(* sendRequest, sendNotification, sendMessage: marshal, frame, Write.      *)
(* The Write fails, writing nothing, when the pipe has no reader (the      *)
(* server is gone) or the client has closed it.                            *)
(***************************************************************************)
SendPcs ==
    {"init_send", "init_notif", "q_open", "q_send", "close_shutdown",
     "close_exit"}

MsgAtQueryFirst(c) ==
    CASE pc[c] = "init_send" -> Request(id[c], "initialize")
      [] pc[c] = "init_notif" -> Notification("initialized")
      [] pc[c] = "q_open" -> Request(id[c], QueryMethod(op[c]))
      [] pc[c] = "q_send" -> Notification("textDocument/didOpen")
      [] pc[c] = "close_shutdown" -> Request(id[c], "shutdown")
      [] pc[c] = "close_exit" -> Notification("exit")

MsgAt(c) ==
    CASE pc[c] = "init_send" -> Request(id[c], "initialize")
      [] pc[c] = "init_notif" -> Notification("initialized")
      [] pc[c] = "q_open" -> Notification("textDocument/didOpen")
      [] pc[c] = "q_send" -> Request(id[c], QueryMethod(op[c]))
      [] pc[c] = "close_shutdown" -> Request(id[c], "shutdown")
      [] pc[c] = "close_exit" -> Notification("exit")

CanWrite == srvUp /\ ~stdinClosed

\* what the caller does with the error value of the send
AfterSend(c, err) ==
    CASE pc[c] \in {"init_send", "init_notif", "q_send"} ->
            IF err THEN ReturnErr(c) ELSE Goto(c, Succ(pc[c]))
      [] pc[c] = "q_open" ->
            IF err /\ op[c] = "hover" THEN ReturnErr(c) ELSE Goto(c, Succ(pc[c]))
      [] pc[c] = "close_shutdown" ->
            /\ pc' = [pc EXCEPT ![c] = Succ(pc[c])]
            /\ closeLog' = Append(closeLog, "shutdown")
            /\ UNCHANGED <<proc, result, closeCalls>>
      [] pc[c] = "close_exit" ->
            /\ pc' = [pc EXCEPT ![c] = Succ(pc[c])]
            /\ closeLog' = Append(closeLog, "exit")
            /\ UNCHANGED <<proc, result, closeCalls>>

sendMessage(c) ==
    /\ Running
    /\ pc[c] \in SendPcs
    /\ LET chunks == IF wbuf[c] = <<>>
                     THEN WriteChunks(Frame(Marshal(MsgAt(c))))
                     ELSE wbuf[c]
           err == ~CanWrite
           finished == err \/ Tail(chunks) = <<>>
           in == Deframe(stdinBuf \o Head(chunks))
       IN /\ stdinBuf' = IF err THEN stdinBuf ELSE in.rest
          /\ received' = IF err THEN received ELSE received \cup RequestIds(in.msgs)
          /\ sentLog' = IF finished /\ ~err
                        THEN [sentLog EXCEPT ![c] = Append(@, MsgAt(c))]
                        ELSE sentLog
          /\ wbuf' = [wbuf EXCEPT ![c] = IF finished THEN <<>> ELSE Tail(chunks)]
          /\ IF finished
             THEN AfterSend(c, err)
             ELSE UNCHANGED <<pc, proc, result, closeCalls, closeLog>>
    /\ UNCHANGED <<nextID, mu, responses, chans, doneClosed, stdinClosed, op, id,
                   readerVars, serverVars, issued>>
    /\ UNCHANGED posVars

(***************************************************************************)
(* <-respChan in Initialize (the value is discarded) and in the query      *)
(* methods (the value is decoded and displayed).                           *)
(***************************************************************************)
\* the wait given up after a while
awaitTimeout(c) ==
    /\ Running
    /\ pc[c] \in {"init_wait", "q_wait"}
    /\ ReturnErr(c)
    /\ UNCHANGED <<nextID, mu, responses, chans, doneClosed, stdinClosed, op, id,
                   wbuf, readerVars, serverVars, wireVars, issued, posVars>>

await(c) ==
    /\ Running
    /\ pc[c] \in {"init_wait", "q_wait"}
    /\ chans[RespChan(c, pc[c])].buf # <<>>
    /\ chans' = [chans EXCEPT ![RespChan(c, pc[c])].buf = Tail(@),
                              ![RespChan(c, pc[c])].taken = @ + 1]
    /\ IF pc[c] = "init_wait"
       THEN Goto(c, Succ(pc[c]))
       ELSE LET r == Outcome(op[c], Head(chans[RespChan(c, pc[c])].buf))
            IN IF r = "err" THEN ReturnErr(c) ELSE ReturnNil(c, r)
    /\ UNCHANGED <<nextID, mu, responses, doneClosed, stdinClosed, op, id, wbuf, readerVars, serverVars, wireVars, issued>>
    /\ UNCHANGED posVars

(***************************************************************************)
(* main(): the switch on the command, after Initialize returned nil.       *)
(***************************************************************************)
dispatch ==
    /\ Running
    /\ pc[Main] = "dispatch"
    /\ \E cmd \in Commands, a \in ArgCases :
          IF cmd \in QueryOps /\ a = "ok"
          THEN /\ op' = [op EXCEPT ![Main] = cmd]
               /\ Goto(Main, "q_open")
          ELSE /\ op' = op
               /\ ReturnErr(Main)
    /\ UNCHANGED <<nextID, mu, responses, chans, doneClosed, stdinClosed, id, wbuf, readerVars, serverVars, wireVars, issued>>
    /\ UNCHANGED posVars

\* os.ReadFile fails at the start of a query method
readFileFails(c) ==
    /\ Running
    /\ pc[c] = "q_open"
    /\ wbuf[c] = <<>>
    /\ ReturnErr(c)
    /\ UNCHANGED <<nextID, mu, responses, chans, doneClosed, stdinClosed, op, id,
                   wbuf, readerVars, serverVars, wireVars, issued>>
    /\ UNCHANGED posVars

(***************************************************************************)
(* Close, after the two sends: close(c.done), c.stdin.Close(),             *)
(* c.cmd.Wait().  Wait returns when the server process has ended; main()   *)
(* then returns and the process exits with code 0.                         *)
(***************************************************************************)
closeDone ==
    /\ Running
    /\ pc[Main] = "close_done"
    /\ doneClosed' = TRUE
    /\ pc' = [pc EXCEPT ![Main] = Succ(pc[Main])]
    /\ closeLog' = Append(closeLog, "done")
    /\ UNCHANGED <<nextID, mu, responses, chans, stdinClosed, proc, op, id, wbuf, result, readerVars, serverVars, wireVars, issued, closeCalls>>
    /\ UNCHANGED posVars

closeStdin ==
    /\ Running
    /\ pc[Main] = "close_stdin"
    /\ stdinClosed' = TRUE
    /\ pc' = [pc EXCEPT ![Main] = Succ(pc[Main])]
    /\ closeLog' = Append(closeLog, "stdin")
    /\ UNCHANGED <<nextID, mu, responses, chans, doneClosed, proc, op, id, wbuf, result, readerVars, serverVars, wireVars, issued, closeCalls>>
    /\ UNCHANGED posVars

cmdWait ==
    /\ Running
    /\ pc[Main] = "close_wait"
    /\ ~srvUp
    /\ pc' = [pc EXCEPT ![Main] = "exited"]
    /\ proc' = "exit0"
    /\ closeLog' = Append(closeLog, "wait")
    /\ UNCHANGED <<nextID, mu, responses, chans, doneClosed, stdinClosed, op, id,
                   wbuf, result, readerVars, serverVars, wireVars, issued, closeCalls>>
    /\ UNCHANGED posVars

\* a worker goroutine calls one of the query methods of the client
workerStart(w) ==
    /\ Running
    /\ w \in Workers
    /\ pc[w] = "w_idle"
    /\ pc[Main] = "harness"
    /\ \A v \in Workers : v < w => pc[v] # "w_idle"
    /\ \E o \in WorkerOps : op' = [op EXCEPT ![w] = o]
    /\ Goto(w, "q_open")
    /\ UNCHANGED <<nextID, mu, responses, chans, doneClosed, stdinClosed, id, wbuf, readerVars, serverVars, wireVars, issued>>
    /\ UNCHANGED posVars


(***************************************************************************)
(* readLoop.                                                               *)
(***************************************************************************)
HasLine(s) == \E i \in 1..Len(s) : s[i].t = "NL"

FirstNL(s) ==
    CHOOSE i \in 1..Len(s) : s[i].t = "NL" /\ \A j \in 1..(i - 1) : s[j].t # "NL"

\* strconv.Atoi(strings.TrimSpace(parts[1])) with the error discarded
Atoi(rest) == IF Len(rest) = 1 /\ rest[1].t = "num" THEN rest[1].n ELSE 0

\* contentLength after one header line that is not empty
LengthAfterLine(line, len) ==
    IF line[1].t = "CL" THEN Atoi(Tail(line)) ELSE len

\* The header loop on the text s: ReadString('\n') line by line up to the
\* empty line.  done: the empty line was found; len: contentLength then;
\* kinds: the kinds of header lines met (for the properties, not for the code).
LineKind(line) ==
    IF line[1].t # "CL" THEN "other"
    ELSE IF Len(line) = 2 /\ line[2].t = "num" THEN "length"
    ELSE "badlength"

RECURSIVE ReadHeader(_, _, _)
ReadHeader(s, len, kinds) ==
    IF ~HasLine(s)
    THEN [done |-> FALSE, len |-> len, kinds |-> kinds, rest |-> s]
    ELSE LET i == FirstNL(s)
             line == SubSeq(s, 1, i - 1)
             rest == SubSeq(s, i + 1, Len(s))
         IN IF line = <<>>
            THEN [done |-> TRUE, len |-> len, kinds |-> kinds, rest |-> rest]
            ELSE ReadHeader(rest, LengthAfterLine(line, len),
                            kinds \cup {LineKind(line)})

\* the header block of the next frame, read from the start of stdout
NextHeader == ReadHeader(stdout, 0, {})

\* the reads of one iteration can all be served from what is in the pipe
FrameReadable ==
    /\ NextHeader.done
    /\ \/ NextHeader.len < 0
       \/ Len(NextHeader.rest) >= NextHeader.len

\* select { case <-c.done: return; default: }
readCheck ==
    /\ Running
    /\ rpc = "r_check"
    /\ rpc' = IF doneClosed THEN "r_ret" ELSE "r_read"
    /\ UNCHANGED <<clientVars, callerVars, rlen, rmsg, rhdr, serverVars, wireVars,
                   histVars>>
    /\ UNCHANGED posVars

\* the loop goes round: contentLength and msg are declared anew
LoopBackReturn ==
    /\ rpc' = "r_ret"
    /\ rlen' = 0
    /\ rmsg' = NoBody
    /\ rhdr' = {}

LoopBack ==
    /\ rpc' = "r_check"
    /\ rlen' = 0
    /\ rmsg' = NoBody
    /\ rhdr' = {}

\* One iteration's reads: the header loop, make([]byte, contentLength),
\* io.ReadFull, json.Unmarshal.  The reads block while the pipe is open and
\* holds too little; they fail, and readLoop returns, once the pipe is at its
\* end.  make panics on a negative length.
readFrame ==
    /\ Running
    /\ rpc = "r_read"
    /\ IF FrameReadable
       THEN LET h == NextHeader
                content == SubSeq(h.rest, 1, h.len)
            IN IF h.len < 0
               THEN /\ proc' = "panic"
                    /\ rpc' = "r_panic"
                    /\ stdout' = h.rest
                    /\ rlen' = h.len
                    /\ rhdr' = h.kinds
                    /\ rmsg' = rmsg
               ELSE /\ proc' = proc
                    /\ stdout' = SubSeq(h.rest, h.len + 1, Len(h.rest))
                    /\ IF IsJSON(content) /\ content[1].b.id # NoId
                       THEN /\ rmsg' = content[1].b
                            /\ rpc' = "r_disp"
                            /\ rlen' = h.len
                            /\ rhdr' = h.kinds
                       ELSE LoopBack
       ELSE /\ ~srvUp
            /\ stdout' = <<>>
            /\ rpc' = "r_ret"
            /\ rlen' = NextHeader.len
            /\ rhdr' = NextHeader.kinds
            /\ UNCHANGED <<proc, rmsg>>
    /\ UNCHANGED <<nextID, mu, responses, chans, doneClosed, stdinClosed,
                   callerVars, srvUp, sent, wireVars, histVars>>
    /\ UNCHANGED posVars

\* c.mu.Lock(); if ok := c.responses[*msg.ID]; ok { ch <- msg.Result
\* and, when there is no channel, c.mu.Unlock() and round the loop.
\* A send on a full channel would block with c.mu held.
dispatchPush ==
    /\ Running
    /\ rpc = "r_disp"
    /\ mu = "free"
    /\ IF rmsg.id \in DOMAIN responses
       THEN LET k == responses[rmsg.id]
            IN IF Len(chans[k].buf) < ChanCap
               THEN /\ chans' = [chans EXCEPT ![k].buf = Append(@, ResultOf(rmsg)),
                                              ![k].got = Append(@, [id |-> rmsg.id, kind |-> rmsg.kind,
                                                                     val |-> ResultOf(rmsg)])]
                    /\ mu' = "reader"
                    /\ rpc' = "r_del"
                    /\ UNCHANGED <<rlen, rmsg, rhdr>>
               ELSE /\ mu' = "reader"
                    /\ rpc' = "r_blocked"
                    /\ UNCHANGED <<chans, rlen, rmsg, rhdr>>
       ELSE /\ LoopBack
            /\ UNCHANGED <<chans, mu>>
    /\ UNCHANGED <<nextID, responses, doneClosed, stdinClosed, proc, callerVars,
                   serverVars, wireVars, histVars>>
    /\ UNCHANGED posVars

\* delete(c.responses, *msg.ID) } without c.mu.Unlock()
dispatchDeleteKeepsLock ==
    /\ Running
    /\ rpc = "r_del"
    /\ responses' = Without(responses, rmsg.id)
    /\ mu' = mu
    /\ LoopBack
    /\ UNCHANGED <<nextID, chans, doneClosed, stdinClosed, proc, callerVars,
                   serverVars, wireVars, histVars, posVars>>

\* delete(c.responses, *msg.ID) }; c.mu.Unlock()
dispatchDelete ==
    /\ Running
    /\ rpc = "r_del"
    /\ responses' = Without(responses, rmsg.id)
    /\ mu' = "free"
    /\ LoopBack
    /\ UNCHANGED <<nextID, chans, doneClosed, stdinClosed, proc, callerVars,
                   serverVars, wireVars, histVars>>
    /\ UNCHANGED posVars

(***************************************************************************)
(* The server.  It reads the client's frames from its input and writes     *)
(* frames to its output when it likes.  The pipe to readLoop is modelled   *)
(* with the server writing only when readLoop has no complete piece to     *)
(* read, which loses no behaviour: a read sees the same tokens whether     *)
(* they were written long before or just now.                              *)
(***************************************************************************)
ReplyBodies ==
    {[id |-> i, kind |-> "result", val |-> v] : i \in received, v \in ResultVals}
        \cup {[id |-> i, kind |-> "error", val |-> "err"] : i \in received}

\* a request of the server to the client; the server numbers its requests itself
ServerRequests ==
    {[id |-> i, kind |-> "request", val |-> "srvreq"] : i \in Range(issued)}

ServerNotification == [id |-> NoId, kind |-> "notification", val |-> "srvnotif"]

UnmatchedReply == [id |-> UnissuedId, kind |-> "result", val |-> "null"]

ServerBodies ==
    ReplyBodies \cup ServerRequests \cup {ServerNotification, UnmatchedReply}

\* a frame with a header line besides Content-Length
ExtraLineFrame(data) ==
    <<Tok("CL"), Num(Len(data)), Tok("NL"), Tok("x"), Tok("NL"), Tok("NL")>> \o data

\* a frame whose header block has no Content-Length line
NoLengthFrame(data) == <<Tok("x"), Tok("NL"), Tok("NL")>> \o data

\* a frame whose Content-Length is not a number
BadLengthFrame(data) == <<Tok("CL"), Tok("x"), Tok("NL"), Tok("NL")>> \o data

\* a header announcing a negative length
NegLengthFrame == <<Tok("CL"), Num(-1), Tok("NL"), Tok("NL")>>

\* a frame whose payload is not JSON
BadJSONFrame == Frame(<<Tok("x"), Tok("x")>>)

ServerMenu ==
    {Frame(Marshal(b)) : b \in ServerBodies}
        \cup {ExtraLineFrame(Marshal(b)) : b \in {r \in ReplyBodies : r.kind = "error"}}
        \cup {NoLengthFrame(Marshal(ServerNotification)),
              BadLengthFrame(Marshal(ServerNotification)),
              NegLengthFrame, Frame(<<>>), BadJSONFrame}

\* a frame cut short: in the header line, or in the payload
CutFrames ==
    {SubSeq(Frame(Marshal(ServerNotification)), 1, n) :
        n \in {HeaderLen - 2, HeaderLen + 1}}

ReaderStarved ==
    /\ rpc \in {"r_check", "r_read", "r_disp", "r_del"}
    /\ ~FrameReadable

serverEmit ==
    /\ Running
    /\ srvUp
    /\ sent < MaxServerFrames
    /\ ReaderStarved
    /\ \E f \in ServerMenu : stdout' = stdout \o f
    /\ sent' = sent + 1
    /\ UNCHANGED <<clientVars, callerVars, readerVars, srvUp, wireVars, histVars>>
    /\ UNCHANGED posVars

\* the server dies in the middle of a frame
serverCut ==
    /\ Running
    /\ srvUp
    /\ ReaderStarved
    /\ \E f \in CutFrames : stdout' = stdout \o f
    /\ srvUp' = FALSE
    /\ UNCHANGED <<clientVars, callerVars, readerVars, sent, wireVars, histVars>>
    /\ UNCHANGED posVars

\* the server process ends: after exit, on end of input, or by crashing
serverExit ==
    /\ Running
    /\ srvUp
    /\ srvUp' = FALSE
    /\ UNCHANGED <<clientVars, callerVars, readerVars, sent, stdout, wireVars, histVars>>
    /\ UNCHANGED posVars

(***************************************************************************)
(* The specifications.                                                     *)
(***************************************************************************)
CallerStep(c) ==
    \/ getNextID(c)
    \/ registerResponse(c)
    \/ sendMessage(c)
    \/ await(c)
    \/ readFileFails(c)

ReaderStep ==
    \/ readCheck
    \/ readFrame
    \/ dispatchPush
    \/ dispatchDelete

ServerStep ==
    \/ serverEmit
    \/ serverCut
    \/ serverExit

\* the program: main() is the only caller
Next ==
    \/ \E c \in Callers : CallerStep(c)
    \/ dispatch
    \/ closeDone
    \/ closeStdin
    \/ cmdWait
    \/ ReaderStep
    \/ ServerStep

Spec == Init /\ [][Next]_vars

\* The Go scheduler runs every goroutine that can run: the main goroutine
\* and readLoop each take a step when one stays possible.  Nothing is
\* assumed of the server.
MainStep ==
    \/ CallerStep(Main)
    \/ dispatch
    \/ closeDone
    \/ closeStdin
    \/ cmdWait

FairSpec == Spec /\ WF_vars(MainStep) /\ WF_vars(ReaderStep)

\* The server leaves once its input is closed: the assumption under which
\* Close is expected to come to an end.
ServerLeaves == stdinClosed /\ serverExit

CloseFairSpec == FairSpec /\ WF_vars(ServerLeaves)

\* the client object called by several goroutines at once
ConcNext ==
    \/ \E c \in Callers : CallerStep(c) \/ workerStart(c)
    \/ ReaderStep
    \/ ServerStep

ConcSpec == ConcInit /\ [][ConcNext]_vars

(***************************************************************************)
(* The way of a source position through a definition or references query:  *)
(* the command-line arguments, parsePosition, the position in the request, *)
(* a location in the server's result, the line displayLocations prints.    *)
(* The server may return the position it was sent or any other.            *)
(***************************************************************************)
posParse ==
    /\ ppc = "args"
    /\ ppc' = IF ValidPosition(cli) THEN "parsed" ELSE "rejected"
    /\ UNCHANGED <<cli, wire, loc, shown, sessionVars>>

posSend ==
    /\ ppc = "parsed"
    /\ wire' = WirePosition(cli[1].n, cli[2].n)
    /\ ppc' = "sent"
    /\ UNCHANGED <<cli, loc, shown, sessionVars>>

posReply ==
    /\ ppc = "sent"
    /\ loc' \in Ints \X Ints
    /\ ppc' = "replied"
    /\ UNCHANGED <<cli, wire, shown, sessionVars>>

posDisplay ==
    /\ ppc = "replied"
    /\ shown' = DisplayPosition(loc[1], loc[2])
    /\ ppc' = "shown"
    /\ UNCHANGED <<cli, wire, loc, sessionVars>>

PosInit ==
    /\ InitAt("position")
    /\ ppc = "args"
    /\ cli \in AtoiResults \X AtoiResults
    /\ wire = ZeroPos
    /\ loc = ZeroPos
    /\ shown = ZeroPos

PosNext ==
    \/ posParse
    \/ posSend
    \/ posReply
    \/ posDisplay

PosSpec == PosInit /\ [][PosNext]_vars


(***************************************************************************)
(* Properties.                                                             *)
(***************************************************************************)
IsPrefix(s, t) == Len(s) <= Len(t) /\ SubSeq(t, 1, Len(s)) = s

\* the methods of the requests whose response a client method awaits
AwaitedMethods == {"initialize"} \cup {QueryMethod(o) : o \in QueryOps}

\* what a query method writes
QueryWire == {"textDocument/didOpen"} \cup {QueryMethod(o) : o \in QueryOps}

Awaiting(c) == pc[c] \in {"init_wait", "q_wait"}

\* the awaited requests caller c has written
RequestsSent(c) ==
    {m \in Range(sentLog[c]) : m.kind = "request" /\ m.val \in AwaitedMethods}

AwaitedIds == UNION {{m.id : m \in RequestsSent(c)} : c \in Callers}

InitChan == chans[<<Main, "init">>]

\* the positions in the log of caller c of the messages with a method of ms
Positions(c, ms) == {j \in 1..Len(sentLog[c]) : sentLog[c][j].val \in ms}

(***************************************************************************)
(* C1.  With several requests outstanding and the server answering in any  *)
(* order, a message that carries an id with a registered channel is sent   *)
(* on the channel registered for that id, once, and on no other channel;   *)
(* no channel ever gets two messages or a message of another id.           *)
(***************************************************************************)
C1_OwnIdAtMostOnce ==
    \A k \in ChanKeys :
        /\ Len(chans[k].got) <= 1
        /\ \A j \in 1..Len(chans[k].got) : chans[k].got[j].id = chans[k].id
        /\ chans[k].taken <= Len(chans[k].got)
        /\ Len(chans[k].buf) + chans[k].taken = Len(chans[k].got)

C1_DispatchStep ==
    (rpc = "r_disp" /\ rpc' # "r_disp" /\ rmsg.id \in DOMAIN responses)
        => LET k == responses[rmsg.id]
           IN /\ chans[k].id = rmsg.id
              /\ chans'[k].got =
                     Append(chans[k].got, [id |-> rmsg.id, kind |-> rmsg.kind,
                                           val |-> ResultOf(rmsg)])
              /\ chans'[k].buf = Append(chans[k].buf, ResultOf(rmsg))
              /\ \A j \in ChanKeys \ {k} : chans'[j] = chans[j]

C1_DeliveredExactlyOnce == []C1_OwnIdAtMostOnce /\ [][C1_DispatchStep]_vars

\* two requests are outstanding and the later one is answered first: its
\* caller has received the result while the earlier request is unanswered
C1_Witness ==
    \E a, b \in Workers :
        /\ chans[<<a, "query">>].id \in received
        /\ chans[<<b, "query">>].id > chans[<<a, "query">>].id
        /\ chans[<<a, "query">>].got = <<>>
        /\ chans[<<b, "query">>].taken = 1
        /\ chans[<<b, "query">>].got[1].kind = "result"

(***************************************************************************)
(* C2.  The channel of an awaited request (initialize, hover, definition,  *)
(* references) is registered under the id before any part of the request  *)
(* is written, so a reply to a written request, however early readLoop     *)
(* dispatches it, finds the id in c.responses unless the channel of the    *)
(* id has been served already.                                             *)
(***************************************************************************)
C2_RegisteredBeforeWritten ==
    /\ \A c \in Callers :
          /\ \A m \in RequestsSent(c) :
                \E k \in ChanKeys : k[1] = c /\ chans[k].id = m.id
          /\ (pc[c] \in {"init_send", "q_send"} /\ wbuf[c] # <<>>)
                => chans[RespChan(c, pc[c])].id = id[c]
    /\ \A i \in received \cap AwaitedIds :
          \/ i \in DOMAIN responses
          \/ \E k \in ChanKeys : chans[k].id = i /\ chans[k].got # <<>>
    /\ (rpc = "r_disp" /\ rmsg.kind \in {"result", "error"}
            /\ rmsg.id \in AwaitedIds)
          => \/ rmsg.id \in DOMAIN responses
             \/ \E k \in ChanKeys : chans[k].id = rmsg.id /\ chans[k].got # <<>>

\* the reply to the query request is in the caller's channel while the
\* caller has only just finished writing the request
C2_Witness ==
    /\ pc[Main] = "q_wait"
    /\ chans[<<Main, "query">>].buf # <<>>
    /\ chans[<<Main, "query">>].got[1].kind = "result"

(***************************************************************************)
(* C3.  Initialize writes the initialized notification only after it has   *)
(* written the initialize request and received, from the channel of that   *)
(* request's id, what readLoop dispatched for the id; and main() writes    *)
(* didOpen and the query request only after the initialized notification.  *)
(***************************************************************************)
C3_HandshakeOrder ==
    /\ \A j \in Positions(Main, {"initialized"}) :
          /\ \E i \in Positions(Main, {"initialize"}) :
                i < j /\ sentLog[Main][i].id = InitChan.id
          /\ InitChan.got # <<>>
          /\ InitChan.taken = 1
    /\ (pc[Main] = "init_notif") => InitChan.taken = 1
    /\ \A j \in Positions(Main, QueryWire) :
          \E i \in Positions(Main, {"initialized"}) : i < j

\* the handshake is over and the query request is written
C3_Witness ==
    /\ Positions(Main, {"initialized"}) # {}
    /\ Positions(Main, {QueryMethod(o) : o \in QueryOps}) # {}
    /\ InitChan.got[1].kind = "result"

(***************************************************************************)
(* C4.  Whenever the process has exited, with code 0 or with code 1, Close *)
(* has been entered exactly once and has sent shutdown and then exit.      *)
(***************************************************************************)
C4_CloseOnEveryExit ==
    proc \in {"exit0", "exit1"}
        => /\ closeCalls = 1
           /\ IsPrefix(<<"shutdown", "exit">>, closeLog)

(***************************************************************************)
(* C5.  When the server's output ends, or a frame is cut short, while a    *)
(* caller awaits a response, so that readLoop has returned and the         *)
(* caller's channel is empty, the caller's method eventually returns an    *)
(* error.                                                                  *)
(***************************************************************************)
C5_TransportErrorSurfaced ==
    (/\ Awaiting(Main)
     /\ rpc = "r_ret"
     /\ chans[RespChan(Main, pc[Main])].buf = <<>>)
        ~> (result[Main] = "err")

(***************************************************************************)
(* C6.  Close takes its steps in one order: the shutdown request, the exit *)
(* notification, close(c.done), c.stdin.Close(), c.cmd.Wait(); and no      *)
(* channel is ever registered for the id of the shutdown request, so       *)
(* nothing in Close waits for its response.                                *)
(***************************************************************************)
CloseOrder == <<"shutdown", "exit", "done", "stdin", "wait">>

C6_CloseStepsInOrder ==
    /\ IsPrefix(closeLog, CloseOrder)
    /\ doneClosed <=> "done" \in Range(closeLog)
    /\ stdinClosed <=> "stdin" \in Range(closeLog)
    /\ proc = "exit0" <=> "wait" \in Range(closeLog)
    /\ \A j \in Positions(Main, {"shutdown"}) : "shutdown" \in Range(closeLog)
    /\ \A j \in Positions(Main, {"exit"}) :
          /\ "exit" \in Range(closeLog)
          /\ \A i \in Positions(Main, {"shutdown"}) : i < j
    /\ (pc[Main] \in ClosePcs \ {"close_id"})
          => /\ id[Main] \notin DOMAIN responses
             /\ \A k \in ChanKeys : chans[k].id # id[Main]
    /\ \A m \in Range(sentLog[Main]) :
          m.val = "shutdown"
              => /\ m.id \notin DOMAIN responses
                 /\ \A k \in ChanKeys : chans[k].id # m.id

\* Close has run to its end, and both of its messages reached the server
C6_Witness ==
    /\ closeLog = CloseOrder
    /\ Positions(Main, {"shutdown"}) # {}
    /\ Positions(Main, {"exit"}) # {}
    /\ proc = "exit0"

(***************************************************************************)
(* C7.  getNextID returns FirstID, FirstID + 1, ... in this order, also    *)
(* when goroutines call it concurrently: no id is returned twice, and no   *)
(* two requests written by the client carry the same id.                   *)
(***************************************************************************)
C7_FreshIncreasingIds ==
    /\ \A j \in 1..Len(issued) : issued[j] = FirstID + (j - 1)
    /\ nextID = FirstID + Len(issued)
    /\ \A a, b \in Callers :
          \A i \in 1..Len(sentLog[a]), j \in 1..Len(sentLog[b]) :
              (/\ sentLog[a][i].kind = "request"
               /\ sentLog[b][j].kind = "request"
               /\ sentLog[a][i].id = sentLog[b][j].id)
                  => (a = b /\ i = j)

\* two goroutines are in a query method at once, each with the id it got
C7_Witness ==
    \E a, b \in Workers :
        /\ a # b
        /\ pc[a] = "q_reg"
        /\ pc[b] = "q_reg"
        /\ id[a] # id[b]
        /\ Len(issued) = 2

(***************************************************************************)
(* C8.  When goroutines send concurrently, the text the server has been    *)
(* written is whole frames one after another: what is on the stream after  *)
(* the last whole frame is the part already written of the one message     *)
(* some caller is writing, and every request a caller has written has      *)
(* been read by the server.                                                *)
(***************************************************************************)
C8_WholeFrames ==
    /\ \/ stdinBuf = <<>>
       \/ \E c \in Callers :
             /\ wbuf[c] # <<>>
             /\ LET whole == Deframe(stdinBuf \o Flatten(wbuf[c]))
                IN Len(whole.msgs) = 1 /\ whole.rest = <<>>
    /\ \A c \in Callers :
          \A m \in Range(sentLog[c]) : m.kind = "request" => m.id \in received

\* two goroutines have each written didOpen and are both at the write of
\* their request
C8_Witness ==
    \E a, b \in Workers :
        /\ a # b
        /\ pc[a] = "q_send"
        /\ pc[b] = "q_send"
        /\ Len(sentLog[a]) = 1
        /\ Len(sentLog[b]) = 1

(***************************************************************************)
(* C9.  When the initialize request cannot be written, or the message      *)
(* Initialize received for it is an error response, Initialize has         *)
(* returned an error, the process has exited with code 1, and neither      *)
(* didOpen nor a query request has been written.                           *)
(***************************************************************************)
C9_FailedHandshakeAborts ==
    LET writeFailed == /\ InitChan.id # NoId
                       /\ pc[Main] \notin InitializePcs
                       /\ Positions(Main, {"initialize"}) = {}
        errorAnswer == /\ InitChan.taken = 1
                       /\ InitChan.got[1].kind = "error"
    IN (writeFailed \/ errorAnswer)
           => /\ result[Main] = "err"
              /\ proc = "exit1"
              /\ Positions(Main, QueryWire) = {}

(***************************************************************************)
(* C10.  When the header block readLoop has read holds no Content-Length   *)
(* line with a number, readLoop stops with that frame: it delivers nothing *)
(* and does not go round the loop to read further frames.  A header block  *)
(* with a Content-Length line and other lines besides is read as a frame.  *)
(***************************************************************************)
C10_NoLengthStep ==
    (/\ rpc = "r_read"
     /\ rpc' # "r_read"
     /\ NextHeader.done
     /\ "length" \notin NextHeader.kinds)
        => (rpc' = "r_ret" /\ chans' = chans)

C10_OtherLineStep ==
    (/\ rpc = "r_read"
     /\ rpc' # "r_read"
     /\ FrameReadable
     /\ NextHeader.kinds = {"length", "other"})
        => rpc' # "r_ret"

C10_MissingLengthIsError ==
    [][C10_NoLengthStep]_vars /\ [][C10_OtherLineStep]_vars

(***************************************************************************)
(* C11.  A query method writes the didOpen notification before its         *)
(* request, and writes one request: a caller that has written its query    *)
(* request has written didOpen earlier, has written no other query         *)
(* request, and the request carries the id the method registered.          *)
(***************************************************************************)
QueryMethods == {QueryMethod(o) : o \in QueryOps}

C11_DidOpenThenOneRequest ==
    \A c \in Callers :
        /\ \A j \in Positions(c, QueryMethods) :
              /\ \E i \in Positions(c, {"textDocument/didOpen"}) : i < j
              /\ sentLog[c][j] = Request(chans[<<c, "query">>].id, QueryMethod(op[c]))
        /\ Cardinality(Positions(c, QueryMethods)) <= 1
        /\ Cardinality(Positions(c, {"textDocument/didOpen"})) <= 1
        /\ (pc[c] = "q_wait" \/ chans[<<c, "query">>].taken > 0)
              => Cardinality(Positions(c, QueryMethods)) = 1

\* Definition, which does not look at the error of the didOpen write, has
\* written both messages and waits
C11_Witness ==
    /\ pc[Main] = "q_wait"
    /\ op[Main] = "definition"
    /\ Positions(Main, {"textDocument/didOpen"}) # {}
    /\ Positions(Main, QueryMethods) # {}

(***************************************************************************)
(* C12.  The position in the request is (line - 1, column - 1) for every   *)
(* accepted command-line position; the position displayed for a location   *)
(* (L, C) of the result is (L + 1, C + 1), for L and C below the largest   *)
(* int; and a location that carries the position that was sent is          *)
(* displayed as the command-line position.                                 *)
(***************************************************************************)
C12_PositionsBelowMaxInt ==
    /\ ppc \in {"parsed", "sent", "replied", "shown"}
          => (cli[1].n >= 1 /\ cli[2].n >= 1)
    /\ ppc \in {"sent", "replied", "shown"}
          => wire = <<cli[1].n - 1, cli[2].n - 1>>
    /\ ppc = "shown"
          => /\ loc[1] < MaxInt => shown[1] = loc[1] + 1
             /\ loc[2] < MaxInt => shown[2] = loc[2] + 1
             /\ loc = wire => shown = <<cli[1].n, cli[2].n>>

\* the statement for every location of the result
C12_PositionsAsStated ==
    /\ ppc \in {"sent", "replied", "shown"}
          => wire = <<cli[1].n - 1, cli[2].n - 1>>
    /\ ppc = "shown"
          => /\ shown = <<loc[1] + 1, loc[2] + 1>>
             /\ loc = wire => shown = <<cli[1].n, cli[2].n>>

\* the server returned the position it was sent, and it is displayed
C12_Witness ==
    /\ ppc = "shown"
    /\ cli[1].n = 3
    /\ cli[2].n = 2
    /\ loc = wire
    /\ shown = <<3, 2>>

(***************************************************************************)
(* C13.  When the response to the query request has the result null, or,   *)
(* for definition and references, the empty list, the query method         *)
(* returns nil after printing its nothing-found message, main() returns    *)
(* through the deferred Close, and main() ends the process with code 0,    *)
(* never with os.Exit(1).  (A hover result is null or an object; a list    *)
(* as hover result is a payload of the wrong shape.)                       *)
(***************************************************************************)
QueryChan == chans[<<Main, "query">>]

\* the result the query method of main() received is a response's result v
Received(v) ==
    /\ QueryChan.taken = 1
    /\ QueryChan.got[1].kind = "result"
    /\ QueryChan.got[1].val = v

NothingFound ==
    \/ Received("null")
    \/ op[Main] \in {"definition", "references"} /\ Received("empty")

C13_NothingFoundIsSuccess ==
    NothingFound
        => /\ result[Main] = IF op[Main] = "hover" THEN "nohover" ELSE "nolocs"
           /\ closeCalls = 1
           /\ pc[Main] \in ClosePcs \cup {"exited"}
           /\ proc # "exit1"
           /\ pc[Main] = "exited" => proc = "exit0"

\* references got the empty list and the process has exited with code 0
C13_Witness ==
    /\ op[Main] = "references"
    /\ Received("empty")
    /\ result[Main] = "nolocs"
    /\ proc = "exit0"

\* hover got null and printed that there is no hover information
C13_WitnessHoverNull ==
    /\ op[Main] = "hover"
    /\ Received("null")
    /\ result[Main] = "nohover"
    /\ proc = "exit0"

(***************************************************************************)
(* C14.  When readLoop has decoded a message whose id is not in            *)
(* c.responses, its next step drops the message: c.responses and every     *)
(* channel stay as they are, the mutex is released, and readLoop goes      *)
(* round its loop to the next frame.                                       *)
(***************************************************************************)
C14_DropStep ==
    (rpc = "r_disp" /\ rpc' # "r_disp" /\ rmsg.id \notin DOMAIN responses)
        => /\ responses' = responses
           /\ chans' = chans
           /\ mu' = "free"
           /\ rpc' = "r_check"
           /\ proc' = proc

C14_UnmatchedDropped == [][C14_DropStep]_vars

\* readLoop holds a message with an id that has no channel while a caller
\* waits for the response to its own request
C14_Witness ==
    /\ rpc = "r_disp"
    /\ rmsg.id \notin DOMAIN responses
    /\ \E w \in Workers :
          /\ pc[w] = "q_wait"
          /\ id[w] \in DOMAIN responses
          /\ chans[<<w, "query">>].buf = <<>>

(***************************************************************************)
(* C15.  c.responses is read and written under c.mu only.  Whenever        *)
(* readLoop is not inside its critical section, every key of c.responses   *)
(* is an id getNextID has issued, its value is the one channel registered  *)
(* under that id, and nothing has yet been sent on that channel; a         *)
(* registered channel nothing has been sent on is still in the table.      *)
(* Inside the critical section the only entry whose channel has been sent  *)
(* on is the one readLoop is about to delete.                              *)
(***************************************************************************)
C15_PendingTable ==
    /\ \A i \in DOMAIN responses :
          LET k == responses[i]
          IN /\ k \in ChanKeys
             /\ chans[k].id = i
             /\ i \in Range(issued)
             /\ mu # "reader" => chans[k].got = <<>>
             /\ chans[k].got # <<>> => (rpc = "r_del" /\ rmsg.id = i)
    /\ \A i, j \in DOMAIN responses : responses[i] = responses[j] => i = j
    /\ \A k \in ChanKeys :
          (chans[k].id # NoId /\ chans[k].got = <<>>)
              => (chans[k].id \in DOMAIN responses /\ responses[chans[k].id] = k)

\* of two registered requests one has been answered and its entry is gone,
\* the other is still pending
C15_Witness ==
    \E a, b \in Workers :
        /\ mu = "free"
        /\ chans[<<a, "query">>].got # <<>>
        /\ chans[<<a, "query">>].id \notin DOMAIN responses
        /\ chans[<<b, "query">>].id \in DOMAIN responses
        /\ chans[<<b, "query">>].got = <<>>

(***************************************************************************)
(* C16.  Once Close has closed c.done and c.stdin, and the server leaves   *)
(* when its input is closed, c.cmd.Wait() returns and the process ends,    *)
(* readLoop with it (unless readLoop has panicked on a frame meanwhile).   *)
(* readLoop looks at c.done only at the top of its loop: blocked in a read *)
(* it moves on only when the read is served or the stream is at its end,   *)
(* and it returns from a read only at the end of the stream.               *)
(***************************************************************************)
C16_ReadStep ==
    /\ (rpc = "r_read" /\ rpc' # "r_read") => (FrameReadable \/ ~srvUp)
    /\ (rpc = "r_read" /\ rpc' = "r_ret") => ~srvUp
    /\ (rpc = "r_check" /\ rpc' = "r_ret") => doneClosed

C16_ReaderAndWaitEnd ==
    /\ [][C16_ReadStep]_vars
    /\ (stdinClosed /\ doneClosed) ~> (proc \in {"exit0", "panic"})
    /\ [](proc = "exit0" => closeLog = CloseOrder)

\* readLoop is blocked in a read after close(c.done) and c.stdin.Close():
\* the signal does not end it, the server's leaving will
C16_Witness ==
    /\ doneClosed
    /\ stdinClosed
    /\ rpc = "r_read"
    /\ srvUp
    /\ ~FrameReadable

(***************************************************************************)
(* C17.  <-respChan has no timeout and no cancellation: a caller in        *)
(* Initialize or in a query method leaves the wait only by receiving what  *)
(* readLoop has sent on the channel of its id.  As long as nothing has     *)
(* been sent on it the caller stays where it is: it has not returned, and  *)
(* main() has not entered Close nor ended the process.                     *)
(***************************************************************************)
C17_WaitStep ==
    \A c \in Callers :
        (Awaiting(c) /\ chans[RespChan(c, pc[c])].got = <<>>)
            => /\ pc'[c] = pc[c]
               /\ result'[c] = result[c]
               /\ closeCalls' = closeCalls
               /\ proc' \in {"running", "panic"}

C17_Blocked ==
    \A c \in Callers :
        Awaiting(c)
            => /\ chans[RespChan(c, pc[c])].id = id[c]
               /\ chans[RespChan(c, pc[c])].taken = 0
               /\ result[c] = "none"
               /\ c = Main => (closeCalls = 0 /\ closeLog = <<>>)

C17_NoTimeout == [][C17_WaitStep]_vars /\ []C17_Blocked

\* the server is alive and has written something, readLoop has read it and
\* is blocked in the next read, and Initialize still waits
C17_Witness ==
    /\ pc[Main] = "init_wait"
    /\ InitChan.got = <<>>
    /\ srvUp
    /\ sent >= 1
    /\ rpc = "r_read"
    /\ ~FrameReadable

(***************************************************************************)
(* C18.  Only responses are sent on a caller's channel: a message of the   *)
(* server that carries an id and a method (a request of the server to the  *)
(* client) is not sent on the channel registered under that id, and the    *)
(* entry of the id is not deleted for it.                                  *)
(***************************************************************************)
C18_OnlyResponsesDelivered ==
    /\ \A k \in ChanKeys :
          \A j \in 1..Len(chans[k].got) :
              chans[k].got[j].kind \in {"result", "error"}
    /\ (rpc = "r_del") => rmsg.kind \in {"result", "error"}

(***************************************************************************)
(* C19.  readLoop never blocks with c.mu held: when it is about to send on *)
(* the channel registered under the id of its message, the channel, of     *)
(* capacity 1, is empty, so the send does not block; it holds c.mu only    *)
(* between that send and the delete, and then releases it, so getNextID    *)
(* and registerResponse get the mutex.                                     *)
(***************************************************************************)
C19_SendFindsRoom ==
    /\ rpc # "r_blocked"
    /\ (rpc = "r_disp" /\ rmsg.id \in DOMAIN responses)
          => chans[responses[rmsg.id]].buf = <<>>
    /\ \A k \in ChanKeys : Len(chans[k].buf) <= ChanCap
    /\ mu \in {"free", "reader"}
    /\ mu = "reader" <=> rpc = "r_del"

C19_ReaderNeverBlocksLocked ==
    /\ []C19_SendFindsRoom
    /\ (mu = "reader") ~> (mu = "free" \/ ~Running)

\* main() is at getNextID in Close while readLoop still holds the mutex
\* after its send to the query method
C19_Witness ==
    /\ pc[Main] = "close_id"
    /\ mu = "reader"
    /\ rpc = "r_del"

(***************************************************************************)
(* C20.  When the message the query method of main() receives is an error  *)
(* response, the method returns an error and main() ends the process with  *)
(* code 1: the outcome is not the nothing-found message.  An error         *)
(* response sent on the channel finds the caller at its wait, and the      *)
(* caller goes on to receive it (unless readLoop has panicked meanwhile).  *)
(***************************************************************************)
ErrorAnswered == QueryChan.got # <<>> /\ QueryChan.got[1].kind = "error"

C20_ErrorIsFailure ==
    /\ (ErrorAnswered /\ QueryChan.taken = 1)
          => /\ result[Main] = "err"
             /\ pc[Main] = "exited"
             /\ proc = "exit1"
    /\ (ErrorAnswered /\ QueryChan.taken = 0)
          => /\ pc[Main] = "q_wait"
             /\ QueryChan.buf = <<"nil">>
             /\ proc \in {"running", "panic"}

C20_ErrorResponseExits1 ==
    /\ []C20_ErrorIsFailure
    /\ ErrorAnswered ~> (proc \in {"exit1", "panic"})

\* hover was answered with an error response and the process has exited
C20_Witness ==
    /\ op[Main] = "hover"
    /\ ErrorAnswered
    /\ QueryChan.taken = 1
    /\ proc = "exit1"


(***************************************************************************)
(* C21.  No header of the server crashes the client: whatever integer the  *)
(* Content-Length line of a frame carries, zero and negative values        *)
(* included, readLoop dispatches the frame, skips it or stops reading; the *)
(* process never panics.                                                   *)
(***************************************************************************)
C21_NoHeaderPanics ==
    /\ proc # "panic"
    /\ rpc # "r_panic"
=============================================================================
